---- MODULE Spec2Model ----
(***************************************************************************)
(* Model of the MyFavoriteDouble MEX bridge: mexFunction                   *)
(* (src/myFavDouble_mex.cpp) dispatching command strings onto myClass      *)
(* (src/myClass.hpp) instances that live on the native heap and are named  *)
(* on the host side by handles.  The handle functions                      *)
(* (createMatlabIdFromObj, recoverObjFromMatlabId, destroyObject,          *)
(* checkValidity) come from class_handle.hpp, which is included by the     *)
(* bridge but is not among the sources; they are modelled from section 4.1 *)
(* of the specification (Handle Registry).                                 *)
(***************************************************************************)
EXTENDS Integers, Sequences, FiniteSets, TLC

(* ----------------------------- bounds ---------------------------------- *)
\* number of handles the registry may issue in one run
MaxHandles == 3
\* number of native heap cells an allocation may land in
NumAddrs == 3
\* number of instances that may be left allocated without an owner
MaxOrphans == 1

Addrs == 1..NumAddrs
\* handle tokens the host can send; one that the registry has not issued is an
\* unknown (forged) token, one that was deleted is a stale token
HandleTokens == 1..MaxHandles

(* ------------------------- host-side arrays ---------------------------- *)
\* An mxArray as the bridge reads it: class, number of dimensions, M, N, and
\* the first element of the real data; pi is <<>> when mxGetPi is NULL and
\* <<x>> when the array is complex with first imaginary element x.
MxArray(kind, h, ndims, m, n, pr, pi) ==
    [kind |-> kind, h |-> h, ndims |-> ndims, m |-> m, n |-> n, pr |-> pr, pi |-> pi]

\* a handle token as the host stores it (not of class double)
HandleArg(h) == MxArray("handle", h, 2, 1, 1, 0, <<>>)
\* an argument position that was not supplied
NoArg == MxArray("none", 0, 0, 0, 0, 0, <<>>)

\* 1x1 double arrays: 3 (real), 3 + 0i, 5 + 2i and 5 - 2i
ScalarArgs == { MxArray("double", 0, 2, 1, 1, 3, <<>>),
                MxArray("double", 0, 2, 1, 1, 3, <<0>>),
                MxArray("double", 0, 2, 1, 1, 5, <<2>>),
                MxArray("double", 0, 2, 1, 1, 5, <<-2>>) }
\* double arrays that are not 1x1: a 2x3 block, a 1x2 row, an empty array,
\* and a 1x1x2 array (three dimensions: mxGetN is the product of the trailing
\* dimensions)
ShapedArgs == { MxArray("double", 0, 2, 2, 3, 3, <<>>),
                MxArray("double", 0, 2, 1, 2, 3, <<2>>),
                MxArray("double", 0, 2, 0, 0, 0, <<>>),
                MxArray("double", 0, 3, 1, 2, 3, <<>>) }
RawArgs == ScalarArgs \cup ShapedArgs
HandleArgs == {HandleArg(h) : h \in HandleTokens}

mxIsDouble(a) == a.kind = "double"
mxGetNumberOfDimensions(a) == a.ndims
mxGetM(a) == a.m
mxGetN(a) == a.n

(* --------------------------- myClass ----------------------------------- *)
\* myClass() : valueR(0.0), valueI(0.0)
myClass_default == [valueR |-> 0, valueI |-> 0]

\* myClass(const myClass& a)
myClass_copy(a) == [valueR |-> a.valueR, valueI |-> a.valueI]

\* the size test of myClass(const mxArray*): mexErrMsgIdAndTxt when it fails
SizeMismatch_And(prhs) == (mxGetM(prhs) # 1) /\ (mxGetN(prhs) # 1)
SizeMismatch(prhs) == (mxGetM(prhs) # 1) \/ (mxGetN(prhs) # 1)

\* myClass(const mxArray* prhs) on an array that passed the size test: for a
\* 1x1 array the two loops run once and copy pr[0], and pi[0] when complex;
\* valueI is 0.0 when the input is real
myClass_fromMx_DropImag(prhs) == [valueR |-> prhs.pr, valueI |-> 0]
myClass_fromMx(prhs) ==
    LET complex == IF prhs.pi = <<>> THEN 0 ELSE 1
    IN  [valueR |-> prhs.pr,
         valueI |-> IF complex = 0 THEN 0 ELSE prhs.pi[1]]

\* toDouble(): a 1x1 real array when valueI == 0.0, else a 1x1 complex array
toDouble_AlwaysComplex(obj) ==
    MxArray("double", 0, 2, 1, 1, obj.valueR, <<obj.valueI>>)
toDouble_TestsReal(obj) ==
    LET complex == IF obj.valueR = 0 THEN 0 ELSE 1
    IN  MxArray("double", 0, 2, 1, 1, obj.valueR,
                IF complex = 1 THEN <<obj.valueI>> ELSE <<>>)
toDouble(obj) ==
    LET complex == IF obj.valueI = 0 THEN 0 ELSE 1
    IN  MxArray("double", 0, 2, 1, 1, obj.valueR,
                IF complex = 1 THEN <<obj.valueI>> ELSE <<>>)

\* display(): the text printed, as the pair of numbers it shows
display(obj) ==
    IF obj.valueI = 0 THEN <<obj.valueR>> ELSE <<obj.valueR, obj.valueI>>

\* plus_new(b): the value stored in the freshly allocated result
plus_new_SubImag(a, b) ==
    [valueR |-> a.valueR + b.valueR, valueI |-> a.valueI - b.valueI]
plus_new(a, b) ==
    [valueR |-> a.valueR + b.valueR, valueI |-> a.valueI + b.valueI]

(* ----------------------------- state ----------------------------------- *)
VARIABLES
    heap,       \* native heap: cell -> [alloc, valueR, valueI]
    heapTop,    \* first cell the allocator has never handed out
    orphans,    \* instances left allocated that no handle names
    doubleFree, \* TRUE once operator delete ran on a cell that holds no instance
    registry,   \* handle registry: live handle -> heap cell of its instance
    nextId,     \* identifier the registry mints next
    issuedLog,  \* handles returned to the host, in order of issue
    released,   \* the handles h for which a delete(h) succeeded
    alive,      \* FALSE once the host process has crashed
    last,       \* the last boundary call: its inputs and what it returned
    scenario    \* how many commands of the scenario of specification section 8
                \* the host has issued, when it has issued nothing else

vars == <<heap, heapTop, orphans, doubleFree, registry, nextId, issuedLog, released, alive, last,
          scenario>>

FreeCell == [alloc |-> FALSE, valueR |-> 0, valueI |-> 0]
Cell(obj) == [alloc |-> TRUE, valueR |-> obj.valueR, valueI |-> obj.valueI]
\* the cells operator new may return: any cell released earlier, or the next
\* cell that was never used (the unused cells are interchangeable)
FreeAddrs == {a \in Addrs : ~heap[a].alloc /\ a <= heapTop}
HeapTopNew(addr) == IF addr = heapTop THEN heapTop + 1 ELSE heapTop

NoOut == <<"none">>

Call(cmd, nrhs, nlhs, p1, p2, oob, status, kind, msg, out) ==
    [cmd |-> cmd, nrhs |-> nrhs, nlhs |-> nlhs, p1 |-> p1, p2 |-> p2,
     oob |-> oob, status |-> status, kind |-> kind, msg |-> msg, out |-> out]

\* between two boundary calls: the host holds no pending result
Idle == Call("<idle>", 0, 0, NoArg, NoArg, FALSE, "ok", "", "", NoOut)
\* the host issues one command and blocks until it returns
HostReady == alive /\ last = Idle

Init ==
    /\ heap = [a \in Addrs |-> FreeCell]
    /\ heapTop = 1
    /\ orphans = 0
    /\ doubleFree = FALSE
    /\ registry = [h \in {} |-> 0]
    /\ nextId = 1
    /\ issuedLog = <<>>
    /\ released = {}
    /\ alive = TRUE
    /\ last = Idle
    /\ scenario = 0

(* ---------------- handle registry (specification section 4.1) ---------- *)
\* isValid(handle): whether the handle is currently registered
checkValidity(a) == a.kind = "handle" /\ a.h \in DOMAIN registry

\* resolve(handle): the instance the handle names (guarded by checkValidity;
\* an unregistered handle fails with InvalidHandle)
recoverObjFromMatlabId(a) == heap[registry[a.h]]

\* register(value): the freshly minted handle, a monotonically increasing
\* identifier and not the raw identity of the instance
MintHandle(addr) == nextId

\* register(value): the registry after storing the instance under handle h
createMatlabIdFromObj(h, addr) ==
    [x \in DOMAIN registry \cup {h} |-> IF x = h THEN addr ELSE registry[x]]

\* release(handle): the registry without the entry
destroyObject(h) == [x \in DOMAIN registry \ {h} |-> registry[x]]

(* --------------------------- native heap -------------------------------- *)
\* operator new followed by a constructor that returned obj
HeapNew(addr, obj) == [heap EXCEPT ![addr] = Cell(obj)]
\* operator delete on the cell
HeapDelete(addr) == [heap EXCEPT ![addr] = FreeCell]
DoubleFreeDelete(addr) == doubleFree \/ ~heap[addr].alloc

(* ----------------------- results of a boundary call --------------------- *)
\* mexErrMsgTxt / mexErrMsgIdAndTxt: the call ends with an error and nothing
\* else of the state changes
Fail(cmd, nrhs, nlhs, p1, p2, oob, kind, msg) ==
    /\ last' = Call(cmd, nrhs, nlhs, p1, p2, oob, "error", kind, msg, NoOut)
    /\ UNCHANGED <<heap, heapTop, orphans, doubleFree, registry, nextId, issuedLog, released, alive>>

\* a normal return that creates nothing
Return(cmd, nrhs, nlhs, p1, p2, oob, out) ==
    /\ last' = Call(cmd, nrhs, nlhs, p1, p2, oob, "ok", "", "", out)
    /\ UNCHANGED <<heap, heapTop, orphans, doubleFree, registry, nextId, issuedLog, released, alive>>

\* plhs[0] = createMatlabIdFromObj<myClass>(*(new myClass(...))): allocate a
\* cell, construct obj in it, register it and return its handle
ReturnNew(cmd, nrhs, nlhs, p1, p2, oob, addr, obj) ==
    LET h == MintHandle(addr)
    IN  /\ nextId <= MaxHandles
        /\ heap' = HeapNew(addr, obj)
        /\ heapTop' = HeapTopNew(addr)
        /\ registry' = createMatlabIdFromObj(h, addr)
        /\ nextId' = nextId + 1
        /\ issuedLog' = Append(issuedLog, h)
        /\ last' = Call(cmd, nrhs, nlhs, p1, p2, oob, "ok", "", "", <<"handle", h>>)
        /\ UNCHANGED <<orphans, doubleFree, released, alive>>

\* the process dies on a wild pointer
Crash(cmd, nrhs, nlhs, p1, p2) ==
    /\ alive' = FALSE
    /\ last' = Call(cmd, nrhs, nlhs, p1, p2, TRUE, "crash", "Crash", "", NoOut)
    /\ UNCHANGED <<heap, heapTop, orphans, doubleFree, registry, nextId, issuedLog, released>>

\* the arrays the host supplies at prhs[1] and prhs[2]
Supplied(nrhs, i, a) == IF nrhs > i THEN a ELSE NoArg

\* The argument counts the host may pass.  mexFunction compares nrhs with 1
\* and 2 only and nlhs with 1 only, so these values cover every branch: no
\* argument, one, two; no output, one, and too many.
Nrhs == {1, 2, 3}
Nlhs == {0, 1, 2}
\* for the commands that never read nlhs the host's choice of it changes
\* nothing: one value stands for all
NlhsUnread == {1}

(* ------------------------- the host's scenario ------------------------- *)
\* new() -> A; newFromMatlab((5.0, 2.0)) -> B; plus(A, B) -> C; double(C);
\* delete(A); isValid(A); isValid(B).  A, B and C are the first three
\* handles the bridge returned.
ScenarioLen == 7
\* the value of scenario once the host has issued any other command
ScenarioLeft == ScenarioLen + 1
Issued(k) == IF Len(issuedLog) >= k THEN issuedLog[k] ELSE 0
ScenarioCall(k) ==
    CASE k = 1 -> <<"new", 1, 1, NoArg, NoArg>>
      [] k = 2 -> <<"newFromMatlab", 2, 1, MxArray("double", 0, 2, 1, 1, 5, <<2>>), NoArg>>
      [] k = 3 -> <<"plus", 3, 1, HandleArg(Issued(1)), HandleArg(Issued(2))>>
      [] k = 4 -> <<"double", 2, 1, HandleArg(Issued(3)), NoArg>>
      [] k = 5 -> <<"delete", 2, 1, HandleArg(Issued(1)), NoArg>>
      [] k = 6 -> <<"isValid", 2, 1, HandleArg(Issued(1)), NoArg>>
      [] k = 7 -> <<"isValid", 2, 1, HandleArg(Issued(2)), NoArg>>
\* the call just made is the next command of the scenario, or the host has
\* left the scenario
ScenarioTrack ==
    scenario' =
        IF /\ scenario < ScenarioLen
           /\ <<last'.cmd, last'.nrhs, last'.nlhs, last'.p1, last'.p2>>
                  = ScenarioCall(scenario + 1)
        THEN scenario + 1
        ELSE ScenarioLeft

(* ------------------------------ mexFunction ----------------------------- *)
\* Lines 27-29: no command string (nrhs < 1, or prhs[0] is not a string that
\* fits the 64 character buffer)
CmdNoCommand ==
    /\ HostReady
    /\ \E nrhs \in {0} \cup Nrhs, nlhs \in NlhsUnread :
         Fail("<none>", nrhs, nlhs, NoArg, NoArg, FALSE, "InvalidArgument",
              "First input should be a command string less than 64 characters long.")
    /\ ScenarioTrack

\* Lines 31-60: "new"
New_ShallowCopy(nrhs, nlhs, p1) ==
    IF nlhs # 1 THEN
        Fail("new", nrhs, nlhs, NoArg, NoArg, FALSE, "OutputCount",
             "New: One output expected.")
    ELSE IF nrhs = 1 THEN
        \E addr \in FreeAddrs :
            ReturnNew("new", nrhs, nlhs, NoArg, NoArg, FALSE, addr, myClass_default)
    ELSE IF nrhs = 2 THEN
        IF ~checkValidity(p1) THEN
            Fail("new", nrhs, nlhs, p1, NoArg, FALSE, "InvalidHandle", "Handle not valid.")
        ELSE
            /\ issuedLog' = Append(issuedLog, p1.h)
            /\ last' = Call("new", nrhs, nlhs, p1, NoArg, FALSE, "ok", "", "",
                            <<"handle", p1.h>>)
            /\ UNCHANGED <<heap, heapTop, orphans, doubleFree, registry, nextId,
                           released, alive>>
    ELSE
        Fail("new", nrhs, nlhs, NoArg, NoArg, FALSE, "ArityError",
             "New: Too many arguments.")

\* the copy branch moves the instance: the source is destroyed once copied
New_MoveCopy(nrhs, nlhs, p1) ==
    IF nlhs # 1 THEN
        Fail("new", nrhs, nlhs, NoArg, NoArg, FALSE, "OutputCount",
             "New: One output expected.")
    ELSE IF nrhs = 1 THEN
        \E addr \in FreeAddrs :
            ReturnNew("new", nrhs, nlhs, NoArg, NoArg, FALSE, addr, myClass_default)
    ELSE IF nrhs = 2 THEN
        IF ~checkValidity(p1) THEN
            Fail("new", nrhs, nlhs, p1, NoArg, FALSE, "InvalidHandle", "Handle not valid.")
        ELSE
            \E addr \in FreeAddrs :
                LET h == MintHandle(addr)
                    obj == myClass_copy(recoverObjFromMatlabId(p1))
                IN  /\ nextId <= MaxHandles
                    /\ heap' = [heap EXCEPT ![addr] = Cell(obj),
                                            ![registry[p1.h]] = FreeCell]
                    /\ heapTop' = HeapTopNew(addr)
                    /\ registry' = [x \in (DOMAIN registry \ {p1.h}) \cup {h} |->
                                       IF x = h THEN addr ELSE registry[x]]
                    /\ nextId' = nextId + 1
                    /\ issuedLog' = Append(issuedLog, h)
                    /\ last' = Call("new", nrhs, nlhs, p1, NoArg, FALSE, "ok", "", "",
                                    <<"handle", h>>)
                    /\ UNCHANGED <<orphans, doubleFree, released, alive>>
    ELSE
        Fail("new", nrhs, nlhs, NoArg, NoArg, FALSE, "ArityError",
             "New: Too many arguments.")

\* the copy branch registers the source instance itself under a second handle
New_AliasCopy(nrhs, nlhs, p1) ==
    IF nlhs # 1 THEN
        Fail("new", nrhs, nlhs, NoArg, NoArg, FALSE, "OutputCount",
             "New: One output expected.")
    ELSE IF nrhs = 1 THEN
        \E addr \in FreeAddrs :
            ReturnNew("new", nrhs, nlhs, NoArg, NoArg, FALSE, addr, myClass_default)
    ELSE IF nrhs = 2 THEN
        IF ~checkValidity(p1) THEN
            Fail("new", nrhs, nlhs, p1, NoArg, FALSE, "InvalidHandle", "Handle not valid.")
        ELSE
            LET h == MintHandle(registry[p1.h])
            IN  /\ nextId <= MaxHandles
                /\ registry' = createMatlabIdFromObj(h, registry[p1.h])
                /\ nextId' = nextId + 1
                /\ issuedLog' = Append(issuedLog, h)
                /\ last' = Call("new", nrhs, nlhs, p1, NoArg, FALSE, "ok", "", "",
                                <<"handle", h>>)
                /\ UNCHANGED <<heap, heapTop, orphans, doubleFree, released, alive>>
    ELSE
        Fail("new", nrhs, nlhs, NoArg, NoArg, FALSE, "ArityError",
             "New: Too many arguments.")

New(nrhs, nlhs, p1) ==
    IF nlhs # 1 THEN
        Fail("new", nrhs, nlhs, NoArg, NoArg, FALSE, "OutputCount",
             "New: One output expected.")
    ELSE IF nrhs = 1 THEN
        \E addr \in FreeAddrs :
            ReturnNew("new", nrhs, nlhs, NoArg, NoArg, FALSE, addr, myClass_default)
    ELSE IF nrhs = 2 THEN
        IF ~checkValidity(p1) THEN
            Fail("new", nrhs, nlhs, p1, NoArg, FALSE, "InvalidHandle", "Handle not valid.")
        ELSE
            \E addr \in FreeAddrs :
                ReturnNew("new", nrhs, nlhs, p1, NoArg, FALSE, addr,
                          myClass_copy(recoverObjFromMatlabId(p1)))
    ELSE
        Fail("new", nrhs, nlhs, NoArg, NoArg, FALSE, "ArityError",
             "New: Too many arguments.")

CmdNew ==
    /\ HostReady
    /\ \E nrhs \in Nrhs, nlhs \in Nlhs, a1 \in HandleArgs :
         New(nrhs, nlhs, Supplied(nrhs, 1, a1))
    /\ ScenarioTrack

\* Lines 62-92: "newFromMatlab".  The constructor of line 90 runs inside the
\* new-expression: when it reports the size error the cell that operator new
\* returned is released if the error unwinds as an exception and stays
\* allocated, owned by nobody, if it leaves by a non-local jump.  Such a block
\* is never handed out again: it is counted in orphans and takes no cell of
\* the recycled part of the heap.
NewFromMatlab(nrhs, nlhs, p1) ==
    IF nrhs # 2 THEN
        Fail("newFromMatlab", nrhs, nlhs, NoArg, NoArg, FALSE, "ArityError",
             "myClass:invalidNumInputs")
    ELSE IF nlhs > 1 THEN
        Fail("newFromMatlab", nrhs, nlhs, NoArg, NoArg, FALSE, "OutputCount",
             "myClass:maxlhs")
    ELSE IF ~mxIsDouble(p1) THEN
        Fail("newFromMatlab", nrhs, nlhs, p1, NoArg, FALSE, "InvalidArgument",
             "myClass:inputNotDouble")
    ELSE IF mxGetNumberOfDimensions(p1) # 2 THEN
        Fail("newFromMatlab", nrhs, nlhs, p1, NoArg, FALSE, "InvalidArgument",
             "myClass:inputNot2D")
    ELSE IF SizeMismatch(p1) THEN
        \E unwinds \in BOOLEAN :
            /\ unwinds \/ orphans < MaxOrphans
            /\ orphans' = IF unwinds THEN orphans ELSE orphans + 1
            /\ last' = Call("newFromMatlab", nrhs, nlhs, p1, NoArg, FALSE, "error",
                            "InvalidArgument", "myClass:invalidSize", NoOut)
            /\ UNCHANGED <<heap, heapTop, doubleFree, registry, nextId, issuedLog,
                           released, alive>>
    ELSE
        \E addr \in FreeAddrs :
            ReturnNew("newFromMatlab", nrhs, nlhs, p1, NoArg, FALSE, addr,
                      myClass_fromMx(p1))

CmdNewFromMatlab ==
    /\ HostReady
    /\ \E nrhs \in Nrhs, nlhs \in Nlhs, a1 \in RawArgs \cup {HandleArg(1)} :
         NewFromMatlab(nrhs, nlhs, Supplied(nrhs, 1, a1))
    /\ ScenarioTrack

\* Lines 94-104: "delete"
Delete_NoDestroy(nrhs, nlhs, p1) ==
    IF nrhs # 2 THEN
        Fail("delete", nrhs, nlhs, NoArg, NoArg, FALSE, "ArityError",
             "Delete: Wrong number of arguments.")
    ELSE IF ~checkValidity(p1) THEN
        Fail("delete", nrhs, nlhs, p1, NoArg, FALSE, "InvalidHandle", "Handle not valid.")
    ELSE
        /\ released' = released \cup {p1.h}
        /\ last' = Call("delete", nrhs, nlhs, p1, NoArg, FALSE, "ok", "", "", NoOut)
        /\ UNCHANGED <<heap, heapTop, orphans, doubleFree, registry, nextId, issuedLog, alive>>

Delete(nrhs, nlhs, p1) ==
    IF nrhs # 2 THEN
        Fail("delete", nrhs, nlhs, NoArg, NoArg, FALSE, "ArityError",
             "Delete: Wrong number of arguments.")
    ELSE IF ~checkValidity(p1) THEN
        Fail("delete", nrhs, nlhs, p1, NoArg, FALSE, "InvalidHandle", "Handle not valid.")
    ELSE
        /\ registry' = destroyObject(p1.h)
        /\ heap' = HeapDelete(registry[p1.h])
        /\ doubleFree' = DoubleFreeDelete(registry[p1.h])
        /\ released' = released \cup {p1.h}
        /\ last' = Call("delete", nrhs, nlhs, p1, NoArg, FALSE, "ok", "", "", NoOut)
        /\ UNCHANGED <<heapTop, orphans, nextId, issuedLog, alive>>

CmdDelete ==
    /\ HostReady
    /\ \E nrhs \in Nrhs, nlhs \in NlhsUnread, a1 \in HandleArgs :
         Delete(nrhs, nlhs, Supplied(nrhs, 1, a1))
    /\ ScenarioTrack

\* Lines 106-112, run by every command below before it looks at its verb:
\* "ok", or the error the call ends with
SecondInput(nrhs, p1) ==
    IF nrhs < 2 THEN <<"ArityError", "Second input not found.">>
    ELSE IF ~checkValidity(p1) THEN <<"InvalidHandle", "Handle not valid.">>
    ELSE <<"ok", "">>

\* Lines 115-136: "isValid".  The result is stored through an int pointer into
\* a 1x1 uint8 matrix; on the little-endian targets of the host its first
\* byte, which is what the host reads, is 1 or 0 as written.
IsValid(nrhs, nlhs, p1) ==
    LET pre == SecondInput(nrhs, p1)
    IN  IF pre[1] # "ok" THEN
            Fail("isValid", nrhs, nlhs, p1, NoArg, FALSE, pre[1], pre[2])
        ELSE IF nlhs < 1 \/ nrhs > 2 THEN
            Fail("isValid", nrhs, nlhs, p1, NoArg, FALSE,
                 IF nrhs > 2 THEN "ArityError" ELSE "OutputCount",
                 "isValid: Unexpected arguments.")
        ELSE
            Return("isValid", nrhs, nlhs, p1, NoArg, FALSE, <<"bool", checkValidity(p1)>>)

CmdIsValid ==
    /\ HostReady
    /\ \E nrhs \in Nrhs, nlhs \in Nlhs, a1 \in HandleArgs :
         IsValid(nrhs, nlhs, Supplied(nrhs, 1, a1))
    /\ ScenarioTrack

\* Lines 139-143: "display"
Display(nrhs, nlhs, p1) ==
    LET pre == SecondInput(nrhs, p1)
    IN  IF pre[1] # "ok" THEN
            Fail("display", nrhs, nlhs, p1, NoArg, FALSE, pre[1], pre[2])
        ELSE
            Return("display", nrhs, nlhs, p1, NoArg, FALSE,
                   <<"text", display(recoverObjFromMatlabId(p1))>>)

CmdDisplay ==
    /\ HostReady
    /\ \E nrhs \in Nrhs, nlhs \in NlhsUnread, a1 \in HandleArgs :
         Display(nrhs, nlhs, Supplied(nrhs, 1, a1))
    /\ ScenarioTrack

\* Lines 146-154: "double"
Double_ReturnsHandle(nrhs, nlhs, p1) ==
    LET pre == SecondInput(nrhs, p1)
    IN  IF pre[1] # "ok" THEN
            Fail("double", nrhs, nlhs, p1, NoArg, FALSE, pre[1], pre[2])
        ELSE IF nlhs # 1 THEN
            Fail("double", nrhs, nlhs, p1, NoArg, FALSE, "OutputCount",
                 "double: Unexpected arguments.")
        ELSE
            \E addr \in FreeAddrs :
                ReturnNew("double", nrhs, nlhs, p1, NoArg, FALSE, addr,
                          myClass_copy(recoverObjFromMatlabId(p1)))

Double(nrhs, nlhs, p1) ==
    LET pre == SecondInput(nrhs, p1)
    IN  IF pre[1] # "ok" THEN
            Fail("double", nrhs, nlhs, p1, NoArg, FALSE, pre[1], pre[2])
        ELSE IF nlhs # 1 THEN
            Fail("double", nrhs, nlhs, p1, NoArg, FALSE, "OutputCount",
                 "double: Unexpected arguments.")
        ELSE
            Return("double", nrhs, nlhs, p1, NoArg, FALSE,
                   <<"array", toDouble(recoverObjFromMatlabId(p1))>>)

CmdDouble ==
    /\ HostReady
    /\ \E nrhs \in Nrhs, nlhs \in Nlhs, a1 \in HandleArgs :
         Double(nrhs, nlhs, Supplied(nrhs, 1, a1))
    /\ ScenarioTrack

\* Line 159 reads prhs[2] whatever nrhs is.  With nrhs = 2 the position was
\* not supplied: the pointer read there is whatever lies behind the argument
\* array, either a wild pointer or something that decodes to some token.
Garbage == MxArray("garbage", 0, 0, 0, 0, 0, <<>>)
ThirdInputs(nrhs) == IF nrhs > 2 THEN HandleArgs ELSE HandleArgs \cup {Garbage}

\* Lines 157-213: "plus"
Plus_UncheckedSecond(nrhs, nlhs, p1, p2) ==
    LET pre == SecondInput(nrhs, p1)
        oob == nrhs < 3
    IN  IF pre[1] # "ok" THEN
            Fail("plus", nrhs, nlhs, p1, NoArg, FALSE, pre[1], pre[2])
        ELSE IF p2 = Garbage THEN
            Crash("plus", nrhs, nlhs, p1, p2)
        ELSE IF nlhs < 1 \/ nrhs < 2 THEN
            Fail("plus", nrhs, nlhs, p1, p2, oob, "OutputCount",
                 "plus: Unexpected arguments.")
        ELSE
            \E addr \in FreeAddrs :
                ReturnNew("plus", nrhs, nlhs, p1, p2, oob, addr,
                          plus_new(recoverObjFromMatlabId(p1),
                                   IF checkValidity(p2) THEN recoverObjFromMatlabId(p2)
                                   ELSE FreeCell))

\* the count test runs after the sum has been computed and registered
Plus_LateCountTest(nrhs, nlhs, p1, p2) ==
    LET pre == SecondInput(nrhs, p1)
        oob == nrhs < 3
    IN  IF pre[1] # "ok" THEN
            Fail("plus", nrhs, nlhs, p1, NoArg, FALSE, pre[1], pre[2])
        ELSE IF p2 = Garbage THEN
            Crash("plus", nrhs, nlhs, p1, p2)
        ELSE IF ~checkValidity(p2) THEN
            Fail("plus", nrhs, nlhs, p1, p2, oob, "InvalidHandle", "Handle not valid.")
        ELSE
            \E addr \in FreeAddrs :
                IF nlhs < 1 \/ nrhs < 2 THEN
                    /\ nextId <= MaxHandles
                    /\ heap' = HeapNew(addr, plus_new(recoverObjFromMatlabId(p1),
                                                      recoverObjFromMatlabId(p2)))
                    /\ heapTop' = HeapTopNew(addr)
                    /\ registry' = createMatlabIdFromObj(MintHandle(addr), addr)
                    /\ nextId' = nextId + 1
                    /\ issuedLog' = Append(issuedLog, MintHandle(addr))
                    /\ last' = Call("plus", nrhs, nlhs, p1, p2, oob, "error",
                                    "OutputCount", "plus: Unexpected arguments.", NoOut)
                    /\ UNCHANGED <<orphans, doubleFree, released, alive>>
                ELSE
                    ReturnNew("plus", nrhs, nlhs, p1, p2, oob, addr,
                              plus_new(recoverObjFromMatlabId(p1),
                                       recoverObjFromMatlabId(p2)))

Plus(nrhs, nlhs, p1, p2) ==
    LET pre == SecondInput(nrhs, p1)
        oob == nrhs < 3
    IN  IF pre[1] # "ok" THEN
            Fail("plus", nrhs, nlhs, p1, NoArg, FALSE, pre[1], pre[2])
        ELSE IF p2 = Garbage THEN
            Crash("plus", nrhs, nlhs, p1, p2)
        ELSE IF ~checkValidity(p2) THEN
            Fail("plus", nrhs, nlhs, p1, p2, oob, "InvalidHandle", "Handle not valid.")
        ELSE IF nlhs < 1 \/ nrhs < 2 THEN
            Fail("plus", nrhs, nlhs, p1, p2, oob, "OutputCount",
                 "plus: Unexpected arguments.")
        ELSE
            \E addr \in FreeAddrs :
                ReturnNew("plus", nrhs, nlhs, p1, p2, oob, addr,
                          plus_new(recoverObjFromMatlabId(p1), recoverObjFromMatlabId(p2)))

CmdPlus ==
    /\ HostReady
    /\ \E nrhs \in Nrhs, nlhs \in Nlhs, a1 \in HandleArgs :
         \E a2 \in ThirdInputs(nrhs) :
            Plus(nrhs, nlhs, Supplied(nrhs, 1, a1), a2)
    /\ ScenarioTrack

\* Lines 106-112, 157-159 and 215-216: any other command string
UnknownVerbs == {"frobnicate"}

Unknown(cmd, nrhs, nlhs, p1, p2) ==
    LET pre == SecondInput(nrhs, p1)
        oob == nrhs < 3
    IN  IF pre[1] # "ok" THEN
            Fail(cmd, nrhs, nlhs, p1, NoArg, FALSE, pre[1], pre[2])
        ELSE IF p2 = Garbage THEN
            Crash(cmd, nrhs, nlhs, p1, p2)
        ELSE IF ~checkValidity(p2) THEN
            Fail(cmd, nrhs, nlhs, p1, p2, oob, "InvalidHandle", "Handle not valid.")
        ELSE
            Fail(cmd, nrhs, nlhs, p1, p2, oob, "UnrecognizedCommand",
                 "Command not recognized.")

CmdUnknown ==
    /\ HostReady
    /\ \E cmd \in UnknownVerbs, nrhs \in Nrhs, nlhs \in NlhsUnread, a1 \in HandleArgs :
         \E a2 \in ThirdInputs(nrhs) :
            Unknown(cmd, nrhs, nlhs, Supplied(nrhs, 1, a1), a2)
    /\ ScenarioTrack

\* the call has returned: the host takes the result (or the error) and is
\* ready to issue the next command
HostResume ==
    /\ alive
    /\ last # Idle
    /\ last' = Idle
    /\ UNCHANGED <<heap, heapTop, orphans, doubleFree, registry, nextId, issuedLog, released, alive,
                   scenario>>

Next ==
    \/ HostResume
    \/ CmdNoCommand
    \/ CmdNew
    \/ CmdNewFromMatlab
    \/ CmdDelete
    \/ CmdIsValid
    \/ CmdDisplay
    \/ CmdDouble
    \/ CmdPlus
    \/ CmdUnknown

Spec == Init /\ [][Next]_vars

(* ------------------------------ claims ---------------------------------- *)
Live == DOMAIN registry
\* the value a handle resolves to, in a given registry and heap
ValueAt(reg, hp, h) == [valueR |-> hp[reg[h]].valueR, valueI |-> hp[reg[h]].valueI]
\* the complex number a 1x1 array stands for (no imaginary data: imaginary 0)
PairValue(a) == <<a.pr, IF a.pi = <<>> THEN 0 ELSE a.pi[1]>>
IsHandleOut(out) == out[1] = "handle"
NoDuplicates(seq) ==
    \A i, j \in 1..Len(seq) : i # j => seq[i] # seq[j]

\* C1: once delete(h) has succeeded, every later command that resolves h
\* (new-copy, display, double, plus, delete) fails with InvalidHandle, h is
\* not registered, and a well-formed isValid(h) returns false.
C1_DeletedHandleIsInvalid ==
    [][\A h \in released :
        /\ h \notin DOMAIN registry'
        /\ (/\ last'.cmd \in {"new", "display", "double", "plus", "delete"}
            /\ HandleArg(h) \in {last'.p1, last'.p2})
           => last'.kind = "InvalidHandle"
        /\ (/\ last'.cmd = "isValid" /\ last'.nrhs = 2 /\ last'.nlhs >= 1
            /\ last'.p1 = HandleArg(h))
           => (last'.status = "ok" /\ last'.out = <<"bool", FALSE>>)
      ]_vars

C4_IsValidNeverFails ==
    (last.cmd = "isValid" /\ last.nrhs = 2 /\ last.nlhs >= 1)
    => /\ last.status = "ok"
       /\ last.out = <<"bool", last.p1.h \in Live>>

C4_Witness ==
    /\ last.cmd = "isValid"
    /\ last.status = "ok"
    /\ last.out = <<"bool", TRUE>>

\* C5: plus(h1, h2) with three arguments, an output and both handles live
\* returns a handle h3 different from h1 and h2 whose value is the
\* component-wise sum of theirs (also for h1 = h2), and leaves h1 and h2 live
\* with their values unchanged.
C5_PlusAddsIntoNewHandle ==
    [][(/\ last'.cmd = "plus" /\ last'.nrhs = 3 /\ last'.nlhs >= 1
        /\ last'.p1.h \in Live /\ last'.p2.h \in Live)
       => LET h1 == last'.p1.h
              h2 == last'.p2.h
              h3 == last'.out[2]
          IN  /\ last'.status = "ok"
              /\ IsHandleOut(last'.out)
              /\ h3 \notin {h1, h2}
              /\ {h1, h2, h3} \subseteq DOMAIN registry'
              /\ ValueAt(registry', heap', h3).valueR
                    = ValueAt(registry, heap, h1).valueR + ValueAt(registry, heap, h2).valueR
              /\ ValueAt(registry', heap', h3).valueI
                    = ValueAt(registry, heap, h1).valueI + ValueAt(registry, heap, h2).valueI
              /\ ValueAt(registry', heap', h1) = ValueAt(registry, heap, h1)
              /\ ValueAt(registry', heap', h2) = ValueAt(registry, heap, h2)
      ]_vars

C5_Witness ==
    /\ last.cmd = "plus"
    /\ last.status = "ok"
    /\ last.nrhs = 3
    /\ last.p1.h # last.p2.h
    /\ ValueAt(registry, heap, last.p1.h).valueI # 0
    /\ ValueAt(registry, heap, last.p2.h).valueI # 0
    /\ ValueAt(registry, heap, last.out[2]).valueR = 10

\* C6: plus with three arguments of which one handle, in either position, is
\* not live fails with InvalidHandle and leaves the registry and the heap as
\* they were: no handle is issued and no instance is created.
C6_PlusInvalidHandleRegistersNothing ==
    [][(/\ last'.cmd = "plus" /\ last'.nrhs = 3
        /\ (last'.p1.h \notin Live \/ last'.p2.h \notin Live))
       => /\ last'.kind = "InvalidHandle"
          /\ registry' = registry
          /\ heap' = heap
          /\ issuedLog' = issuedLog
          /\ nextId' = nextId
      ]_vars

C6_Witness ==
    /\ last.cmd = "plus"
    /\ last.nrhs = 3
    /\ last.nlhs = 1
    /\ last.kind = "InvalidHandle"
    /\ last.p1.h \in Live
    /\ last.p2.kind = "handle"
    /\ last.p2.h \in released

\* C7: a command string that is none of the seven verbs fails with
\* UnrecognizedCommand whatever arguments come with it, and reads no argument
\* position that was not supplied.
C7_UnknownVerbIsUnrecognized ==
    last.cmd \in UnknownVerbs
    => (last.kind = "UnrecognizedCommand" /\ ~last.oob)

\* the number of arguments (command string included) the table lists
ArityOk(cmd, nrhs) ==
    CASE cmd = "new" -> nrhs \in {1, 2}
      [] cmd = "plus" -> nrhs = 3
      [] OTHER -> nrhs = 2
NamesVerb(msg, cmd) ==
    \/ cmd = "new" /\ msg = "New: Too many arguments."
    \/ cmd = "newFromMatlab" /\ msg = "myClass:invalidNumInputs"
    \/ cmd = "delete" /\ msg = "Delete: Wrong number of arguments."
    \/ cmd = "isValid" /\ msg = "isValid: Unexpected arguments."
    \/ cmd = "double" /\ msg = "double: Unexpected arguments."
    \/ cmd = "plus" /\ msg = "plus: Unexpected arguments."
Verbs == {"new", "newFromMatlab", "delete", "isValid", "display", "double", "plus"}

\* C8: a call of a verb with a number of arguments other than the one the
\* table lists fails with ArityError naming the verb, before any argument
\* position is read (stated for calls that request one output, which every
\* verb accepts).
C8_ArityMismatchIsArityError ==
    (last.cmd \in Verbs /\ last.nlhs = 1 /\ ~ArityOk(last.cmd, last.nrhs))
    => /\ last.kind = "ArityError"
       /\ NamesVerb(last.msg, last.cmd)
       /\ last.p1 = NoArg
       /\ last.p2 = NoArg

\* C9: newFromMatlab, called with one argument and at most one output, on a
\* double array that is not 1x1 fails with InvalidArgument, issues no handle
\* and leaves the registry as it was.
C9_NewFromMatlabRejectsNonScalar ==
    [][(/\ last'.cmd = "newFromMatlab" /\ last'.nrhs = 2 /\ last'.nlhs <= 1
        /\ last'.p1 \in ShapedArgs)
       => /\ last'.kind = "InvalidArgument"
          /\ registry' = registry
          /\ issuedLog' = issuedLog
          /\ nextId' = nextId
      ]_vars

C9_Witness ==
    /\ last.cmd = "newFromMatlab"
    /\ last.kind = "InvalidArgument"
    /\ last.p1.m = 1
    /\ last.p1.n = 2
    /\ last.p1.ndims = 2
    /\ Live # {}

\* C10: the handle a creating command returns resolves to the value it was
\* created from, as double exports it: new() to 0+0i, new(h) to the value of
\* h, newFromMatlab((r, i)) to r+ii (no imaginary data standing for 0).
C10_RegisterResolveRoundTrip ==
    [][(last'.cmd \in {"new", "newFromMatlab"} /\ last'.status = "ok")
       => LET exported == toDouble(ValueAt(registry', heap', last'.out[2]))
          IN  /\ IsHandleOut(last'.out)
              /\ last'.out[2] \in DOMAIN registry'
              /\ (last'.cmd = "new" /\ last'.nrhs = 1)
                 => (PairValue(exported) = <<0, 0>> /\ exported.pi = <<>>)
              /\ (last'.cmd = "new" /\ last'.nrhs = 2)
                 => exported = toDouble(ValueAt(registry, heap, last'.p1.h))
              /\ last'.cmd = "newFromMatlab"
                 => PairValue(exported) = PairValue(last'.p1)
      ]_vars

C10_Witness ==
    /\ last.cmd = "newFromMatlab"
    /\ last.status = "ok"
    /\ last.p1.pi = <<-2>>
    /\ toDouble(ValueAt(registry, heap, last.out[2])).pi = <<-2>>


\* the set of the handles a sequence holds
Range(seq) == {seq[i] : i \in 1..Len(seq)}
\* every handle live before the step is live after it with the same value
LiveKept(hs) ==
    \A h \in hs :
        /\ h \in DOMAIN registry'
        /\ heap'[registry'[h]].alloc
        /\ ValueAt(registry', heap', h) = ValueAt(registry, heap, h)

\* C11: a command that returns a failure of any kind (InvalidHandle,
\* ArityError, UnrecognizedCommand, InvalidArgument, wrong number of requested
\* outputs) is not partially applied: the set of live handles and the value
\* of every live handle are what they were before the command.
C11_FailureChangesNothing ==
    [][last'.status = "error"
       => /\ DOMAIN registry' = DOMAIN registry
          /\ LiveKept(Live)
      ]_vars

\* a plus over two live handles that fails on the requested outputs
C11_Witness ==
    /\ last.cmd = "plus"
    /\ last.status = "error"
    /\ last.kind = "OutputCount"
    /\ last.p1.h \in Live
    /\ last.p2.kind = "handle"
    /\ last.p2.h \in Live

\* C12: display, double and isValid, successful or not, register nothing and
\* change no value: the registry, the instances and the handles issued are
\* what they were before the command.
C12_ReadersChangeNothing ==
    [][last'.cmd \in {"display", "double", "isValid"}
       => /\ registry' = registry
          /\ heap' = heap
          /\ nextId' = nextId
          /\ issuedLog' = issuedLog
          /\ released' = released
      ]_vars

\* a double that exported a complex value while a free cell and an unused
\* handle were at hand
C12_Witness ==
    /\ last.cmd = "double"
    /\ last.status = "ok"
    /\ last.out[1] = "array"
    /\ last.out[2].pi # <<>>
    /\ nextId <= MaxHandles
    /\ FreeAddrs # {}

\* C13: an instance is destroyed by an explicit delete of its own handle and
\* only then: every handle issued and not deleted is valid, a handle leaves
\* the registry only in a successful delete of that handle, and a successful
\* delete(g) removes exactly g and leaves every other handle valid with its
\* value unchanged.
C13_DestroyedOnlyByOwnDelete ==
    [][/\ Range(issuedLog') \ released' \subseteq DOMAIN registry'
       /\ \A h \in Live :
            h \notin DOMAIN registry'
            => (last'.cmd = "delete" /\ last'.status = "ok" /\ last'.p1 = HandleArg(h))
       /\ (last'.cmd = "delete" /\ last'.status = "ok")
          => /\ DOMAIN registry' = Live \ {last'.p1.h}
             /\ LiveKept(Live \ {last'.p1.h})
      ]_vars

\* a delete of one handle succeeded while another handle, holding a complex
\* value, stays registered
C13_Witness ==
    /\ last.cmd = "delete"
    /\ last.status = "ok"
    /\ \E h \in Live : h # last.p1.h /\ ValueAt(registry, heap, h).valueI # 0

\* C14: a value created by newFromMatlab from a raw pair without imaginary
\* part exports through double as a pair without imaginary part and with the
\* same real part, and newFromMatlab of that export holds the same value, so
\* exporting again yields the same pair.
C14_RealOnlyRoundTrip ==
    (last.cmd = "double" /\ last.status = "ok")
    => \A a \in ScalarArgs :
          (a.pi = <<>> /\ ValueAt(registry, heap, last.p1.h) = myClass_fromMx(a))
          => LET exported == last.out[2]
             IN  /\ exported.pi = <<>>
                 /\ exported.pr = a.pr
                 /\ ~SizeMismatch(exported)
                 /\ mxIsDouble(exported)
                 /\ myClass_fromMx(exported) = myClass_fromMx(a)

\* double ran on a handle holding the value of the raw pair (3.0, absent)
C14_Witness ==
    /\ last.cmd = "double"
    /\ last.status = "ok"
    /\ ValueAt(registry, heap, last.p1.h) = [valueR |-> 3, valueI |-> 0]
    /\ last.out[2].pr = 3


\* C15: the scenario new() -> A; newFromMatlab((5.0, 2.0)) -> B;
\* plus(A, B) -> C; double(C); delete(A); isValid(A); isValid(B) runs without
\* any command failing: A holds 0+0i, B holds 5+2i, C holds 5+2i and double(C)
\* is the pair (5.0, 2.0), isValid(A) after the delete returns false and
\* isValid(B) returns true.
C15_ScenarioRuns ==
    (scenario \in 1..ScenarioLen /\ last # Idle)
    => /\ last.status = "ok"
       /\ scenario = 1
          => /\ IsHandleOut(last.out)
             /\ ValueAt(registry, heap, last.out[2]) = [valueR |-> 0, valueI |-> 0]
       /\ scenario = 2
          => /\ IsHandleOut(last.out)
             /\ ValueAt(registry, heap, last.out[2]) = [valueR |-> 5, valueI |-> 2]
       /\ scenario = 3
          => /\ IsHandleOut(last.out)
             /\ ValueAt(registry, heap, last.out[2]) = [valueR |-> 5, valueI |-> 2]
       /\ scenario = 4
          => /\ last.out[1] = "array"
             /\ last.out[2].pr = 5
             /\ last.out[2].pi = <<2>>
       /\ scenario = 5 => Issued(1) \notin Live
       /\ scenario = 6 => last.out = <<"bool", FALSE>>
       /\ scenario = 7 => last.out = <<"bool", TRUE>>

\* the scenario has run up to delete(A), every command of it having succeeded
\* with the values the scenario names
C15_Witness ==
    /\ scenario = 5
    /\ last.cmd = "delete"
    /\ last.status = "ok"
    /\ released = {Issued(1)}
    /\ ValueAt(registry, heap, Issued(2)) = [valueR |-> 5, valueI |-> 2]
    /\ ValueAt(registry, heap, Issued(3)) = [valueR |-> 5, valueI |-> 2]

\* the instances operator new returned and operator delete has not taken back
Allocated == {a \in Addrs : heap[a].alloc}

\* C16: no native instance exists without a handle: after any sequence of
\* commands, failing ones included, the instances allocated and not freed are
\* as many as the handles issued and not deleted; the instance newFromMatlab
\* allocates before its constructor rejects a non-1x1 input is not left
\* allocated, and every plus_new result is registered.
C16_NoInstanceWithoutHandle ==
    /\ orphans = 0
    /\ Cardinality(Allocated) + orphans = Cardinality(Live)
    /\ Allocated = {registry[h] : h \in Live}
    /\ (last.cmd = "plus" /\ last.status = "ok")
       => (IsHandleOut(last.out) /\ last.out[2] \in Live)

\* newFromMatlab was rejected by the size test of the constructor while
\* registered instances exist
C16_Witness ==
    /\ last.cmd = "newFromMatlab"
    /\ last.status = "error"
    /\ last.msg = "myClass:invalidSize"
    /\ Live # {}


\* C17: copies are independent of their source: new(h) with h valid returns a
\* handle h2 # h that names an instance of its own holding the value of h, h
\* stays valid and unchanged, and a successful delete of either handle leaves
\* the other valid with its value.
C17_CopyIsIndependent ==
    [][/\ (last'.cmd = "new" /\ last'.nrhs = 2 /\ last'.status = "ok")
          => LET h == last'.p1.h
                 h2 == last'.out[2]
             IN  /\ h2 # h
                 /\ h2 \notin Live
                 /\ h2 \in DOMAIN registry'
                 /\ registry'[h2] # registry'[h]
                 /\ heap'[registry'[h2]].alloc
                 /\ ValueAt(registry', heap', h2) = ValueAt(registry, heap, h)
                 /\ LiveKept({h})
       /\ \A h, h2 \in DOMAIN registry' : h # h2 => registry'[h] # registry'[h2]
       /\ (last'.cmd = "delete" /\ last'.status = "ok")
          => LiveKept(Live \ {last'.p1.h})
      ]_vars

\* a copy of a complex value was made after an earlier handle was deleted
C17_Witness ==
    /\ last.cmd = "new"
    /\ last.nrhs = 2
    /\ last.status = "ok"
    /\ released # {}
    /\ last.p1.h \in Live
    /\ last.out[2] \in Live
    /\ ValueAt(registry, heap, last.out[2]).valueI # 0

\* C18: double exports no imaginary component exactly when the stored
\* imaginary part is zero, however the value was produced: a value built from
\* a raw pair with explicit imaginary part 0 and a plus result whose imaginary
\* parts cancel store imaginary part zero and export real-only, and a value
\* with a non-zero imaginary part exports both components.
C18_ImaginaryAbsentIffZero ==
    [][/\ (last'.cmd = "double" /\ last'.status = "ok")
          => LET v == ValueAt(registry, heap, last'.p1.h)
                 exported == last'.out[2]
             IN  /\ exported.pr = v.valueR
                 /\ (exported.pi = <<>>) <=> (v.valueI = 0)
                 /\ v.valueI # 0 => exported.pi = <<v.valueI>>
       /\ (last'.cmd = "newFromMatlab" /\ last'.status = "ok" /\ last'.p1.pi = <<0>>)
          => ValueAt(registry', heap', last'.out[2]).valueI = 0
       /\ (/\ last'.cmd = "plus" /\ last'.status = "ok"
           /\ ValueAt(registry, heap, last'.p1.h).valueI
                 + ValueAt(registry, heap, last'.p2.h).valueI = 0)
          => ValueAt(registry', heap', last'.out[2]).valueI = 0
      ]_vars

\* double exported, without imaginary component, the sum (5 + 2i) + (5 - 2i)
C18_Witness ==
    /\ last.cmd = "double"
    /\ last.status = "ok"
    /\ ValueAt(registry, heap, last.p1.h) = [valueR |-> 10, valueI |-> 0]
    /\ last.out[2].pi = <<>>

====
